---- MODULE Spec2Model ----
(***************************************************************************)
(* Model of stock_analysis_app.py: one run of the script from the ticker   *)
(* input through the history fetch, the six indicator columns (SMA50,      *)
(* SMA200, RSI, BB_High, BB_Low, Volatility) and the four "Key Insights"   *)
(* read off the latest row, inside the script's try/except.                *)
(*                                                                         *)
(* Numbers.  A float of the table is NaN or a record [n, d, r, q] (d > 0,  *)
(* q > 0) that stands for  n/d + sgn(r) * sqrt(|r| / q).  Means are exact  *)
(* rationals (r = 0); a band is a mean plus or minus a multiple of a       *)
(* standard deviation, and the radical carries that deviation exactly.     *)
(* Closes are whole numbers.  The Wilder averages behind the RSI, and the   *)
(* RSI itself, are float64 values computed operation by operation with     *)
(* float64 rounding (to nearest, ties to even), on mantissas held as whole *)
(* numbers of any size (sequences of limbs).                               *)
(***************************************************************************)
EXTENDS Integers, Sequences, FiniteSets, TLC

VARIABLES
    pc,               \* position of the script
    ticker_symbol,    \* the sidebar text input, upper-cased
    Close,            \* historical_data['Close'], oldest bar first
    SMA50, SMA200, RSI, BB_High, BB_Low, Volatility,  \* the added columns
    trend,            \* the trend message shown, "none" before it
    momentum,         \* the RSI message shown
    volatility,       \* the volatility text shown
    band,             \* the Bollinger message shown
    out               \* the page: every element emitted so far, in order

vars == <<pc, ticker_symbol, Close, SMA50, SMA200, RSI, BB_High, BB_Low,
          Volatility, trend, momentum, volatility, band, out>>

\* ------------------------------------------------------------- numbers

Num(n, d, r, q) == [nan |-> FALSE, n |-> n, d |-> d, r |-> r, q |-> q]

\* the float that is not a number
NaN == [nan |-> TRUE, n |-> 0, d |-> 1, r |-> 0, q |-> 1]

Whole(k) == Num(k, 1, 0, 1)

IsNaN(x) == x.nan

\* a/d + sgn(r) * sqrt(|r|/q) > 0, for d > 0 and q > 0
Positive(a, d, r, q) ==
    IF r = 0 THEN a > 0
    ELSE IF r > 0 THEN a >= 0 \/ r * d * d > a * a * q
    ELSE a > 0 /\ a * a * q > (-r) * d * d

\* Python's x > y on floats: False as soon as either side is NaN.  At most
\* one operand carries a radical (the script compares a close with a band,
\* a mean with a mean).
Gt(x, y) ==
    IF IsNaN(x) \/ IsNaN(y) THEN FALSE
    ELSE IF y.r = 0
         THEN Positive(x.n * y.d - y.n * x.d, x.d * y.d, x.r, x.q)
         ELSE Positive(x.n * y.d - y.n * x.d, x.d * y.d, -y.r, y.q)

Lt(x, y) == Gt(y, x)

\* ----------------------------------------------------- rolling windows

\* s[lo] + ... + s[hi], summed by halves
RECURSIVE SumRange(_, _, _)
SumRange(s, lo, hi) ==
    IF lo > hi THEN 0
    ELSE IF lo = hi THEN s[lo]
    ELSE SumRange(s, lo, (lo + hi) \div 2)
            + SumRange(s, (lo + hi) \div 2 + 1, hi)

RECURSIVE SumSqRange(_, _, _)
SumSqRange(s, lo, hi) ==
    IF lo > hi THEN 0
    ELSE IF lo = hi THEN s[lo] * s[lo]
    ELSE SumSqRange(s, lo, (lo + hi) \div 2)
            + SumSqRange(s, (lo + hi) \div 2 + 1, hi)

\* w * (sum of squares) - (sum)^2 over the window ending at i: w^2 times the
\* population variance, w*(w-1) times the sample variance.
Spread(s, w, i) ==
    w * SumSqRange(s, i - w + 1, i)
        - SumRange(s, i - w + 1, i) * SumRange(s, i - w + 1, i)

\* close.rolling(window, min_periods=window).mean()
RollingMean(s, w) ==
    [i \in 1..Len(s) |->
        IF i < w THEN NaN ELSE Num(SumRange(s, i - w + 1, i), w, 0, 1)]

\* close.rolling(window).std(): pandas' default ddof = 1
RollingStd(s, w) ==
    [i \in 1..Len(s) |->
        IF i < w THEN NaN ELSE Num(0, 1, Spread(s, w, i), w * (w - 1))]

\* ------------------------------------------------- library indicators

\* ta.trend.SMAIndicator(close, window).sma_indicator()
SMAIndicator(close, window) == RollingMean(close, window)

BBWindow == 20
BBDev == 2

\* ta.volatility.BollingerBands(close): window 20, window_dev 2, with
\* mstd = close.rolling(window).std(ddof=0) and hband = mavg + dev * mstd
bollinger_hband(close) ==
    [i \in 1..Len(close) |->
        IF i < BBWindow THEN NaN
        ELSE Num(SumRange(close, i - BBWindow + 1, i), BBWindow,
                 BBDev * BBDev * Spread(close, BBWindow, i),
                 BBWindow * BBWindow)]

\* lband = mavg - dev * mstd
bollinger_lband(close) ==
    [i \in 1..Len(close) |->
        IF i < BBWindow THEN NaN
        ELSE Num(SumRange(close, i - BBWindow + 1, i), BBWindow,
                 -(BBDev * BBDev * Spread(close, BBWindow, i)),
                 BBWindow * BBWindow)]

\* Whole numbers of any size: the limbs, least significant first, each in
\* 0..LimbBase-1, the last one not 0; zero has no limbs.
LimbBase == 32768

BigZero == <<>>

RECURSIVE BigOf(_)
BigOf(k) ==
    IF k = 0 THEN <<>> ELSE <<k % LimbBase>> \o BigOf(k \div LimbBase)

RECURSIVE Trim(_)
Trim(a) ==
    IF Len(a) > 0 /\ a[Len(a)] = 0 THEN Trim(SubSeq(a, 1, Len(a) - 1)) ELSE a

RECURSIVE MulLimbs(_, _, _, _)
MulLimbs(a, k, i, carry) ==
    IF i > Len(a) THEN BigOf(carry)
    ELSE <<(a[i] * k + carry) % LimbBase>>
            \o MulLimbs(a, k, i + 1, (a[i] * k + carry) \div LimbBase)

\* a * k for a whole k in 0..LimbBase
BigMul(a, k) == IF k = 0 THEN BigZero ELSE MulLimbs(a, k, 1, 0)

Limb(a, i) == IF i <= Len(a) THEN a[i] ELSE 0

RECURSIVE AddLimbs(_, _, _, _)
AddLimbs(a, b, i, carry) ==
    IF i > Len(a) /\ i > Len(b) THEN BigOf(carry)
    ELSE <<(Limb(a, i) + Limb(b, i) + carry) % LimbBase>>
            \o AddLimbs(a, b, i + 1,
                        (Limb(a, i) + Limb(b, i) + carry) \div LimbBase)

BigAdd(a, b) == AddLimbs(a, b, 1, 0)

RECURSIVE SubLimbs(_, _, _, _)
SubLimbs(a, b, i, borrow) ==
    IF i > Len(a) THEN <<>>
    ELSE <<(a[i] - Limb(b, i) - borrow + LimbBase) % LimbBase>>
            \o SubLimbs(a, b, i + 1,
                        IF a[i] - Limb(b, i) - borrow < 0 THEN 1 ELSE 0)

\* a - b, for a >= b
BigSub(a, b) == Trim(SubLimbs(a, b, 1, 0))

BigLess(a, b) ==
    \/ Len(a) < Len(b)
    \/ /\ Len(a) = Len(b)
       /\ \E i \in 1..Len(a) :
            /\ a[i] < b[i]
            /\ \A j \in (i + 1)..Len(a) : a[j] = b[j]

RECURSIVE TimesLimbs(_, _, _)
TimesLimbs(a, b, i) ==
    IF i > Len(b) THEN <<>>
    ELSE LET rest == TimesLimbs(a, b, i + 1)
         IN  BigAdd(BigMul(a, b[i]), IF rest = <<>> THEN rest ELSE <<0>> \o rest)

\* a * b
BigTimes(a, b) == IF a = <<>> THEN <<>> ELSE TimesLimbs(a, b, 1)

RECURSIVE DivLimbs(_, _, _, _)
DivLimbs(a, d, i, rem) ==
    IF i = 0 THEN [q |-> <<>>, r |-> rem]
    ELSE LET rest == DivLimbs(a, d, i - 1, (rem * LimbBase + a[i]) % d)
         IN  [q |-> Append(rest.q, (rem * LimbBase + a[i]) \div d),
              r |-> rest.r]

\* quotient and remainder of a by a whole d in 1..LimbBase
BigDiv(a, d) ==
    LET x == DivLimbs(a, d, Len(a), 0) IN [q |-> Trim(x.q), r |-> x.r]

\* a * 2^k
RECURSIVE Shl(_, _)
Shl(a, k) ==
    IF k = 0 THEN a
    ELSE IF k >= 15 THEN Shl(BigMul(a, 2^15), k - 15)
    ELSE BigMul(a, 2^k)

\* the powers of two up to 2^110
Pow2 == [k \in 0..110 |-> Shl(<<1>>, k)]

Least(i, j) == IF i < j THEN i ELSE j

\* the greatest d from d down with b * d <= r
RECURSIVE DigitFrom(_, _, _)
DigitFrom(r, b, d) ==
    IF BigLess(r, BigMul(b, d)) THEN DigitFrom(r, b, d - 1) ELSE d

\* The whole part of r / b for r < b * LimbBase and the last limb of b at
\* least half of LimbBase: the quotient of the leading limbs is that, or
\* too large by 1 or 2.
DigitOf(r, b) ==
    DigitFrom(r, b,
              Least(LimbBase - 1,
                    (Limb(r, Len(b) + 1) * LimbBase + Limb(r, Len(b)))
                        \div b[Len(b)]))

\* quotient and remainder of a by b, a limb of the quotient at a time,
\* for b with its last limb at least half of LimbBase
RECURSIVE DivMod(_, _)
DivMod(a, b) ==
    IF BigLess(a, b) THEN [q |-> <<>>, r |-> a]
    ELSE LET h == DivMod(a, BigMul(b, LimbBase))
             d == DigitOf(h.r, b)
         IN  [q |-> BigAdd(BigMul(h.q, LimbBase), BigOf(d)),
              r |-> BigSub(h.r, BigMul(b, d))]

\* quotient and remainder of a by b, b not 0: both are scaled first so
\* that the last limb of b is at least half of LimbBase
QuotRem(a, b) ==
    LET f == LimbBase \div (b[Len(b)] + 1)
        x == DivMod(BigMul(a, f), BigMul(b, f))
    IN  [q |-> x.q, r |-> BigDiv(x.r, f).q]

\* Newton's iteration for the whole part of the square root of a, from
\* an x that is not below it
RECURSIVE NewtonRoot(_, _)
NewtonRoot(a, x) ==
    LET y == BigDiv(BigAdd(x, QuotRem(a, x).q), 2).q
    IN  IF BigLess(y, x) THEN NewtonRoot(a, y) ELSE x

\* the whole part of the square root of a, for a below 2^110
Isqrt(a) ==
    IF a = <<>> THEN <<>>
    ELSE NewtonRoot(a, Pow2[CHOOSE k \in 1..55 :
                              /\ BigLess(a, Pow2[2 * k])
                              /\ ~BigLess(a, Pow2[2 * k - 2])])

\* A float64 that is not negative is n * 2^e with n below 2^53 (no float
\* here is near the ends of the exponent range); 0.0 is FZero.
FZero == [n |-> <<>>, e |-> 0]

FOf(k) == [n |-> BigOf(k), e |-> 0]

\* The float64 nearest to n * 2^e (+ a little when sticky), ties to the
\* even mantissa.  With sticky, n is at least 2^54.
RECURSIVE Round(_, _, _)
Round(n, e, sticky) ==
    IF n = <<>> THEN FZero
    ELSE IF ~BigLess(n, Pow2[68])
    THEN LET d == BigDiv(n, 2^15) IN Round(d.q, e + 15, sticky \/ d.r # 0)
    ELSE IF BigLess(n, Pow2[53]) THEN [n |-> n, e |-> e]
    ELSE LET t  == CHOOSE t \in 1..15 :
                     BigLess(n, Pow2[53 + t]) /\ ~BigLess(n, Pow2[52 + t])
             d  == BigDiv(n, 2^t)
             up == \/ d.r > 2^(t - 1)
                   \/ d.r = 2^(t - 1) /\ (sticky \/ BigDiv(d.q, 2).r = 1)
         IN  [n |-> IF up THEN BigAdd(d.q, <<1>>) ELSE d.q, e |-> e + t]

\* a < b and a == b on floats
FLess(a, b) ==
    BigLess(Shl(a.n, a.e - Least(a.e, b.e)), Shl(b.n, b.e - Least(a.e, b.e)))

FEq(a, b) ==
    Shl(a.n, a.e - Least(a.e, b.e)) = Shl(b.n, b.e - Least(a.e, b.e))

\* a * b, a + b, a - b (for a >= b) and a / b on floats
FMul(a, b) == Round(BigTimes(a.n, b.n), a.e + b.e, FALSE)

FAdd(a, b) ==
    IF a.n = <<>> THEN b
    ELSE IF b.n = <<>> THEN a
    ELSE Round(BigAdd(Shl(a.n, a.e - Least(a.e, b.e)),
                      Shl(b.n, b.e - Least(a.e, b.e))),
               Least(a.e, b.e), FALSE)

FSub(a, b) ==
    IF b.n = <<>> THEN a
    ELSE Round(BigSub(Shl(a.n, a.e - Least(a.e, b.e)),
                      Shl(b.n, b.e - Least(a.e, b.e))),
               Least(a.e, b.e), FALSE)

\* the least k, from k on in steps of 15, with n * 2^k >= target
RECURSIVE DivShift(_, _, _)
DivShift(n, target, k) ==
    IF BigLess(Shl(n, k), target) THEN DivShift(n, target, k + 15) ELSE k

FDiv(a, b) ==
    IF a.n = <<>> THEN FZero
    ELSE IF \E j \in 0..68 : b.n = Pow2[j]
    THEN [n |-> a.n, e |-> a.e - b.e - (CHOOSE j \in 0..68 : b.n = Pow2[j])]
    ELSE LET k == DivShift(a.n, Shl(b.n, 54), 0)
             x == QuotRem(Shl(a.n, k), b.n)
         IN  Round(x.q, a.e - b.e - k, x.r # <<>>)

\* the least k from k on, in steps of 2, with n * 2^k >= 2^108
RECURSIVE SqrtShift(_, _)
SqrtShift(n, k) ==
    IF BigLess(Shl(n, k), Pow2[108]) THEN SqrtShift(n, k + 2) ELSE k

\* sqrt(a) on floats
FSqrt(a) ==
    IF a.n = <<>> THEN FZero
    ELSE LET k == SqrtShift(a.n, a.e % 2)
             m == Shl(a.n, k)
             s == Isqrt(m)
         IN  Round(s, (a.e - k) \div 2, BigTimes(s, s) # m)

\* diff.where(diff > 0, 0.0): the first difference is NaN and becomes 0
UpDirection(close, i) ==
    IF i > 1 /\ close[i] > close[i - 1] THEN close[i] - close[i - 1] ELSE 0

\* -diff.where(diff < 0, 0.0)
DownDirection(close, i) ==
    IF i > 1 /\ close[i] < close[i - 1] THEN close[i - 1] - close[i] ELSE 0

\* The weights of ewm(alpha = 1 / window, adjust = False): pandas turns
\* alpha into a centre of mass and back, and the old weight is 1 - alpha
EwmWeights(window) ==
    LET a     == FDiv(FOf(1), FOf(window))
        com   == FDiv(FSub(FOf(1), a), a)
        alpha == FDiv(FOf(1), FAdd(FOf(1), com))
    IN  [old_wt |-> FSub(FOf(1), alpha), new_wt |-> alpha]

\* One step of ewm(...).mean(): the average stays when the new value
\* equals it, and is (old_wt * weighted + new_wt * cur) / (old_wt + new_wt)
\* otherwise, each operation rounded as float64 rounds it
EwmStep(weighted, cur, k) ==
    IF FEq(weighted, cur) THEN weighted
    ELSE FDiv(FAdd(FMul(k.old_wt, weighted), FMul(k.new_wt, cur)),
              FAdd(k.old_wt, k.new_wt))

\* the step on emaup and emadn at once
WilderStep(p, up, dn, k) ==
    [up |-> EwmStep(p.up, FOf(up), k), dn |-> EwmStep(p.dn, FOf(dn), k)]

\* the pairs after bars lo..hi, given the pair p before bar lo; the left
\* half is computed first and its last pair starts the right half
RECURSIVE WilderRun(_, _, _, _, _)
WilderRun(p, close, k, lo, hi) ==
    IF lo > hi THEN <<>>
    ELSE IF lo = hi
    THEN << WilderStep(p, UpDirection(close, lo), DownDirection(close, lo),
                       k) >>
    ELSE LET mid  == (lo + hi) \div 2
             left == WilderRun(p, close, k, lo, mid)
         IN  IF Len(left) > 0
             THEN left \o WilderRun(left[Len(left)], close, k, mid + 1, hi)
             ELSE left

\* emaup and emadn at every bar: the first bar's difference is NaN, taken
\* as no change, and both averages start at its 0.0
WilderSeq(close, window) ==
    WilderRun([up |-> FZero, dn |-> FZero], close, EwmWeights(window),
              1, Len(close))

\* An entry of the RSI column: NaN, or the float
\* np.where(emadn == 0, 100, 100 - (100 / (1 + emaup / emadn))), held as
\* the two averages it is computed from
Rsi(up, dn) == [nan |-> FALSE, up |-> up, dn |-> dn]

RsiNaN == [nan |-> TRUE, up |-> FZero, dn |-> FZero]

RsiValue(p) == Rsi(p.up, p.dn)

\* the float of an entry that is not NaN
RsiFloat(x) ==
    IF x.dn = FZero THEN FOf(100)
    ELSE FSub(FOf(100), FDiv(FOf(100), FAdd(FOf(1), FDiv(x.up, x.dn))))

\* RSIIndicator as it would be if the first window values were undefined
RSIIndicatorLate(close, window) ==
    LET w == WilderSeq(close, window)
    IN  [i \in 1..Len(close) |->
            IF i <= window THEN RsiNaN ELSE RsiValue(w[i])]

\* ta.momentum.RSIIndicator(close, window).rsi(): min_periods = window
RSIIndicator(close, window) ==
    LET w == WilderSeq(close, window)
    IN  [i \in 1..Len(close) |->
            IF i < window THEN RsiNaN ELSE RsiValue(w[i])]

\* ------------------------------------------------------------ histories

SMAShort == 50
SMALong == 200
RSIWindow == 14
VolWindow == 20
MaxLen == 201
Base == 10
Jump == 5

Shapes == {"flat", "rise", "fall", "zigzag", "saw", "spikeUp", "spikeDown",
           "bounce"}

CloseAt(shape, n, i) ==
    CASE shape = "flat"      -> Base
      [] shape = "rise"      -> Base + i
      [] shape = "fall"      -> Base + n - i
      [] shape = "zigzag"    -> Base + (i % 2)
      [] shape = "saw"       -> Base + i + 2 * (i % 2)
      [] shape = "spikeUp"   -> IF i = n THEN Base + Jump ELSE Base
      [] shape = "spikeDown" -> IF i = n THEN Base ELSE Base + Jump
      \* one gain of 6 and one loss of 13, then no change: the averages
      \* stay in the ratio 3 : 7, an RSI of 30 in exact arithmetic
      [] shape = "bounce"    -> IF i = 1 THEN 2 * Base
                                ELSE IF i = 2 THEN 2 * Base + 6
                                ELSE Base + 3

Lens == {1, RSIWindow - 1, RSIWindow, BBWindow - 1, BBWindow,
         SMAShort - 1, SMAShort, SMALong - 1, SMALong, MaxLen}

\* what stock.history(period="1y") may return: no bars at all, or between
\* one bar and MaxLen bars of positive closes
Histories ==
    {<<>>} \cup {[i \in 1..n |-> CloseAt(sh, n, i)] : sh \in Shapes, n \in Lens}

\* ------------------------------------------------------- key insights

Overbought == 70
Oversold == 30

\* series[-1]: the latest row
Latest(column) == column[Len(column)]

\* TrendOf as it would be with >= for >: equal averages read upward
TrendOfInclusive(sma50, sma200) ==
    IF ~Lt(sma50, sma200) /\ ~IsNaN(sma50) /\ ~IsNaN(sma200) THEN "upward"
    ELSE IF Lt(sma50, sma200) THEN "downward"
    ELSE "sideways"

\* if sma50 > sma200 ... elif sma50 < sma200 ... else
TrendOf(sma50, sma200) ==
    IF Gt(sma50, sma200) THEN "upward"
    ELSE IF Lt(sma50, sma200) THEN "downward"
    ELSE "sideways"

\* MomentumOf as it would be with >= 70 for > 70
MomentumOfInclusive(latest_rsi) ==
    LET r == RsiFloat(latest_rsi)
    IN  IF ~IsNaN(latest_rsi) /\ ~FLess(r, FOf(Overbought)) THEN "overbought"
        ELSE IF ~IsNaN(latest_rsi) /\ FLess(r, FOf(Oversold)) THEN "oversold"
        ELSE "neutral"

\* if latest_rsi > 70 ... elif latest_rsi < 30 ... else, on the float r of
\* the entry; a comparison with NaN is False
MomentumOf(latest_rsi) ==
    LET r == RsiFloat(latest_rsi)
    IN  IF ~IsNaN(latest_rsi) /\ FLess(FOf(Overbought), r) THEN "overbought"
        ELSE IF ~IsNaN(latest_rsi) /\ FLess(r, FOf(Oversold)) THEN "oversold"
        ELSE "neutral"

\* BandOf as it would be with the lower band tested first and with <=
BandOfInclusive(latest_close, bb_high, bb_low) ==
    IF ~Gt(latest_close, bb_low) /\ ~IsNaN(bb_low) THEN "below"
    ELSE IF Gt(latest_close, bb_high) THEN "above"
    ELSE "within"

\* if latest_close > bb_high ... elif latest_close < bb_low ... else
BandOf(latest_close, bb_high, bb_low) ==
    IF Gt(latest_close, bb_high) THEN "above"
    ELSE IF Lt(latest_close, bb_low) THEN "below"
    ELSE "within"

\* 100 * sqrt(r/q) <= h + 1/2
AtMostHalf(r, q, h) == 40000 * r <= (2 * h + 1) * (2 * h + 1) * q

RECURSIVE SomeAtMostHalf(_, _, _)
SomeAtMostHalf(r, q, h) ==
    IF AtMostHalf(r, q, h) THEN h ELSE SomeAtMostHalf(r, q, 2 * h + 1)

RECURSIVE LeastAtMostHalf(_, _, _, _)
LeastAtMostHalf(r, q, lo, hi) ==
    IF lo = hi THEN lo
    ELSE IF AtMostHalf(r, q, (lo + hi) \div 2)
         THEN LeastAtMostHalf(r, q, lo, (lo + hi) \div 2)
         ELSE LeastAtMostHalf(r, q, (lo + hi) \div 2 + 1, hi)

\* sqrt(r / q) to hundredths as format(x, '.2f') rounds the float64 x.
\* The nearest hundredth of the exact root is the float's as well unless
\* the root is a tie h + 1/2; then x = sqrt(r / q) computed in float64
\* decides: below the tie, above it, or on it and rounded to the even one.
Hundredths(r, q) ==
    LET h   == LeastAtMostHalf(r, q, 0, SomeAtMostHalf(r, q, 0))
        x   == FSqrt(FDiv(FOf(r), FOf(q)))
        x2  == [n |-> BigMul(x.n, 200), e |-> x.e]
        tie == FOf(2 * h + 1)
    IN  IF 40000 * r < (2 * h + 1) * (2 * h + 1) * q THEN h
        ELSE IF FLess(x2, tie) THEN h
        ELSE IF FLess(tie, x2) THEN h + 1
        ELSE IF h % 2 = 0 THEN h ELSE h + 1

NoText == [shown |-> FALSE, nan |-> FALSE, cents |-> 0]

\* f"{latest_volatility:.2f}" of a standard deviation: "nan", or the value
\* rounded to hundredths
VolatilityText(latest_volatility) ==
    IF IsNaN(latest_volatility)
    THEN [shown |-> TRUE, nan |-> TRUE, cents |-> 0]
    ELSE [shown |-> TRUE, nan |-> FALSE,
          cents |-> Hundredths(latest_volatility.r, latest_volatility.q)]

\* ------------------------------------------------------------ the script

Tickers == {"", "AAPL"}

TryPcs == {"fetch", "check", "basic", "sma50", "sma200", "rsi_column",
           "bollinger", "bb_high", "bb_low", "volatility_column", "charts",
           "trend", "rsi", "volatility", "bands", "disclaimer"}

Fresh ==
    /\ pc = "input"
    /\ ticker_symbol = ""
    /\ Close = <<>>
    /\ SMA50 = <<>> /\ SMA200 = <<>> /\ RSI = <<>>
    /\ BB_High = <<>> /\ BB_Low = <<>> /\ Volatility = <<>>
    /\ trend = "none" /\ momentum = "none" /\ band = "none"
    /\ volatility = NoText
    /\ out = <<>>

Init == Fresh

\* ticker_symbol = st.sidebar.text_input(...).upper(); if ticker_symbol:
Input(t) ==
    /\ pc = "input"
    /\ ticker_symbol' = t
    /\ pc' = IF t = "" THEN "done" ELSE "fetch"
    /\ UNCHANGED <<Close, SMA50, SMA200, RSI, BB_High, BB_Low, Volatility,
                   trend, momentum, volatility, band, out>>

\* stock = yf.Ticker(...); basic_info = stock.info; stock.history("1y")
Fetch(h) ==
    /\ pc = "fetch"
    /\ Close' = h
    /\ pc' = "check"
    /\ UNCHANGED <<ticker_symbol, SMA50, SMA200, RSI, BB_High, BB_Low,
                   Volatility, trend, momentum, volatility, band, out>>

\* CheckEmpty as it would be without the test for an empty table
CheckEmptyMissing ==
    /\ pc = "check"
    /\ pc' = "basic"
    /\ UNCHANGED <<ticker_symbol, Close, SMA50, SMA200, RSI, BB_High, BB_Low,
                   Volatility, trend, momentum, volatility, band, out>>

\* if not historical_data.empty: ... else: st.error("No historical data ...")
CheckEmpty ==
    /\ pc = "check"
    /\ IF Len(Close) = 0
       THEN pc' = "done" /\ out' = Append(out, "no_data")
       ELSE pc' = "basic" /\ out' = out
    /\ UNCHANGED <<ticker_symbol, Close, SMA50, SMA200, RSI, BB_High, BB_Low,
                   Volatility, trend, momentum, volatility, band>>

\* the Basic Information header, two columns and tooltips, and the
\* Technical Indicators header
BasicInfo ==
    /\ pc = "basic"
    /\ out' = Append(out, "basic_info")
    /\ pc' = "sma50"
    /\ UNCHANGED <<ticker_symbol, Close, SMA50, SMA200, RSI, BB_High, BB_Low,
                   Volatility, trend, momentum, volatility, band>>

\* historical_data['SMA50'] = SMAIndicator(..., window=50).sma_indicator()
AddSMA50 ==
    /\ pc = "sma50"
    /\ SMA50' = SMAIndicator(Close, SMAShort)
    /\ pc' = "sma200"
    /\ UNCHANGED <<ticker_symbol, Close, SMA200, RSI, BB_High, BB_Low,
                   Volatility, trend, momentum, volatility, band, out>>

\* historical_data['SMA200'] = SMAIndicator(..., window=200).sma_indicator()
AddSMA200 ==
    /\ pc = "sma200"
    /\ SMA200' = SMAIndicator(Close, SMALong)
    /\ pc' = "rsi_column"
    /\ UNCHANGED <<ticker_symbol, Close, SMA50, RSI, BB_High, BB_Low,
                   Volatility, trend, momentum, volatility, band, out>>

\* historical_data['RSI'] = RSIIndicator(..., window=14).rsi()
AddRSI ==
    /\ pc = "rsi_column"
    /\ RSI' = RSIIndicator(Close, RSIWindow)
    /\ pc' = "bollinger"
    /\ UNCHANGED <<ticker_symbol, Close, SMA50, SMA200, BB_High, BB_Low,
                   Volatility, trend, momentum, volatility, band, out>>

\* bb_indicator = BollingerBands(historical_data['Close']): the rolling
\* mean and deviation are computed here and no column is added yet
MakeBollinger ==
    /\ pc = "bollinger"
    /\ pc' = "bb_high"
    /\ UNCHANGED <<ticker_symbol, Close, SMA50, SMA200, RSI, BB_High, BB_Low,
                   Volatility, trend, momentum, volatility, band, out>>

\* historical_data['BB_High'] = bb_indicator.bollinger_hband()
AddBBHigh ==
    /\ pc = "bb_high"
    /\ BB_High' = bollinger_hband(Close)
    /\ pc' = "bb_low"
    /\ UNCHANGED <<ticker_symbol, Close, SMA50, SMA200, RSI, BB_Low,
                   Volatility, trend, momentum, volatility, band, out>>

\* historical_data['BB_Low'] = bb_indicator.bollinger_lband()
AddBBLow ==
    /\ pc = "bb_low"
    /\ BB_Low' = bollinger_lband(Close)
    /\ pc' = "volatility_column"
    /\ UNCHANGED <<ticker_symbol, Close, SMA50, SMA200, RSI, BB_High,
                   Volatility, trend, momentum, volatility, band, out>>

\* historical_data['Volatility'] = ...rolling(window=20).std(); with it the
\* table holds its six columns, which out records as "indicators"
AddVolatility ==
    /\ pc = "volatility_column"
    /\ Volatility' = RollingStd(Close, VolWindow)
    /\ out' = Append(out, "indicators")
    /\ pc' = "charts"
    /\ UNCHANGED <<ticker_symbol, Close, SMA50, SMA200, RSI, BB_High, BB_Low,
                   trend, momentum, volatility, band>>

\* the three line charts with their tooltips
Charts ==
    /\ pc = "charts"
    /\ out' = Append(out, "charts")
    /\ pc' = "trend"
    /\ UNCHANGED <<ticker_symbol, Close, SMA50, SMA200, RSI, BB_High, BB_Low,
                   Volatility, trend, momentum, volatility, band>>

\* Price Trend Analysis
TrendAnalysis ==
    /\ pc = "trend"
    /\ trend' = TrendOf(Latest(SMA50), Latest(SMA200))
    /\ out' = Append(out, "trend")
    /\ pc' = "rsi"
    /\ UNCHANGED <<ticker_symbol, Close, SMA50, SMA200, RSI, BB_High, BB_Low,
                   Volatility, momentum, volatility, band>>

\* RSI Analysis
RSIAnalysis ==
    /\ pc = "rsi"
    /\ momentum' = MomentumOf(Latest(RSI))
    /\ out' = Append(out, "rsi")
    /\ pc' = "volatility"
    /\ UNCHANGED <<ticker_symbol, Close, SMA50, SMA200, RSI, BB_High, BB_Low,
                   Volatility, trend, volatility, band>>

\* Volatility Analysis
VolatilityAnalysis ==
    /\ pc = "volatility"
    /\ volatility' = VolatilityText(Latest(Volatility))
    /\ out' = Append(out, "volatility")
    /\ pc' = "bands"
    /\ UNCHANGED <<ticker_symbol, Close, SMA50, SMA200, RSI, BB_High, BB_Low,
                   Volatility, trend, momentum, band>>

\* Bollinger Bands Analysis
BollingerAnalysis ==
    /\ pc = "bands"
    /\ band' = BandOf(Whole(Latest(Close)), Latest(BB_High), Latest(BB_Low))
    /\ out' = Append(out, "bands")
    /\ pc' = "disclaimer"
    /\ UNCHANGED <<ticker_symbol, Close, SMA50, SMA200, RSI, BB_High, BB_Low,
                   Volatility, trend, momentum, volatility>>

\* the closing disclaimer
Disclaimer ==
    /\ pc = "disclaimer"
    /\ out' = Append(out, "disclaimer")
    /\ pc' = "done"
    /\ UNCHANGED <<ticker_symbol, Close, SMA50, SMA200, RSI, BB_High, BB_Low,
                   Volatility, trend, momentum, volatility, band>>

\* Raise as it would be if the error replaced the page
RaiseClearsPage ==
    /\ pc \in TryPcs
    /\ out' = <<"error">>
    /\ pc' = "failed"
    /\ UNCHANGED <<ticker_symbol, Close, SMA50, SMA200, RSI, BB_High, BB_Low,
                   Volatility, trend, momentum, volatility, band>>

\* except Exception as e: st.error(...), from any statement of the try
Raise ==
    /\ pc \in TryPcs
    /\ out' = Append(out, "error")
    /\ pc' = "failed"
    /\ UNCHANGED <<ticker_symbol, Close, SMA50, SMA200, RSI, BB_High, BB_Low,
                   Volatility, trend, momentum, volatility, band>>

\* Rerun as it would be if the script kept what it had shown (say in
\* st.session_state) and started the next run with it
RerunKeeps ==
    /\ pc \in {"done", "failed"}
    /\ pc' = "input"
    /\ ticker_symbol' = ""
    /\ Close' = <<>>
    /\ SMA50' = <<>> /\ SMA200' = <<>> /\ RSI' = <<>>
    /\ BB_High' = <<>> /\ BB_Low' = <<>> /\ Volatility' = <<>>
    /\ out' = <<>>
    /\ UNCHANGED <<trend, momentum, volatility, band>>

\* Streamlit runs the script again from the top: nothing is kept
Rerun ==
    /\ pc \in {"done", "failed"}
    /\ pc' = "input"
    /\ ticker_symbol' = ""
    /\ Close' = <<>>
    /\ SMA50' = <<>> /\ SMA200' = <<>> /\ RSI' = <<>>
    /\ BB_High' = <<>> /\ BB_Low' = <<>> /\ Volatility' = <<>>
    /\ trend' = "none" /\ momentum' = "none" /\ band' = "none"
    /\ volatility' = NoText
    /\ out' = <<>>

Next ==
    \/ \E t \in Tickers : Input(t)
    \/ \E h \in Histories : Fetch(h)
    \/ CheckEmpty
    \/ BasicInfo
    \/ AddSMA50
    \/ AddSMA200
    \/ AddRSI
    \/ MakeBollinger
    \/ AddBBHigh
    \/ AddBBLow
    \/ AddVolatility
    \/ Charts
    \/ TrendAnalysis
    \/ RSIAnalysis
    \/ VolatilityAnalysis
    \/ BollingerAnalysis
    \/ Disclaimer
    \/ Raise
    \/ Rerun

Spec == Init /\ [][Next]_vars

\* ----------------------------------------- the key insights on their own
\* The Key Insights block as a function of the table it reads: the script
\* stands at "trend" with the last two rows of historical_data holding any
\* values the indicators can leave there.  A column is defined from its
\* window on, so the latest row has one of five shapes (Stage): nothing
\* defined yet, the RSI, then the bands and the volatility, then SMA50,
\* then SMA200.

Stages == 0..4

SmaValues == {140, 150}
RsiValues == {29, 30, 31, 69, 70, 71}
CloseValues == {149, 150, 152, 153, 155}
Bands == [high |-> 153, low |-> 150]
StdValues == {<<1, 1>>, <<4, 1>>, <<49, 40000>>, <<1, 64>>}

\* the row before the latest: nothing defined yet, or every column defined
\* with values that would read upward, overbought and above the band
EarlierRows == {
    [close |-> 155, sma50 |-> NaN, sma200 |-> NaN, rsi |-> RsiNaN,
     high |-> NaN, low |-> NaN, std |-> NaN],
    [close |-> 155, sma50 |-> Whole(150), sma200 |-> Whole(140),
     rsi |-> Rsi(FOf(71), FOf(29)),
     high |-> Whole(Bands.high), low |-> Whole(Bands.low),
     std |-> Num(0, 1, 4, 1)] }

LatestRows ==
    {[close |-> c,
      rsi |-> IF st >= 1 THEN Rsi(FOf(r), FOf(100 - r)) ELSE RsiNaN,
      high |-> IF st >= 2 THEN Whole(Bands.high) ELSE NaN,
      low |-> IF st >= 2 THEN Whole(Bands.low) ELSE NaN,
      std |-> IF st >= 2 THEN Num(0, 1, v[1], v[2]) ELSE NaN,
      sma50 |-> IF st >= 3 THEN Whole(a) ELSE NaN,
      sma200 |-> IF st >= 4 THEN Whole(b) ELSE NaN] :
        c \in CloseValues, r \in RsiValues, v \in StdValues,
        a \in SmaValues, b \in SmaValues, st \in Stages}

InitRow ==
    \E e \in EarlierRows, l \in LatestRows :
        /\ pc = "trend"
        /\ ticker_symbol = "AAPL"
        /\ Close = <<e.close, l.close>>
        /\ SMA50 = <<e.sma50, l.sma50>>
        /\ SMA200 = <<e.sma200, l.sma200>>
        /\ RSI = <<e.rsi, l.rsi>>
        /\ BB_High = <<e.high, l.high>>
        /\ BB_Low = <<e.low, l.low>>
        /\ Volatility = <<e.std, l.std>>
        /\ trend = "none" /\ momentum = "none" /\ band = "none"
        /\ volatility = NoText
        /\ out = <<"basic_info", "indicators", "charts">>

NextRow ==
    \/ TrendAnalysis
    \/ RSIAnalysis
    \/ VolatilityAnalysis
    \/ BollingerAnalysis
    \/ Disclaimer
    \/ Raise

SpecRow == InitRow /\ [][NextRow]_vars

\* ------------------------------------------ the key insights, run again
\* Key Insights over a table whose columns vary one by one, followed by
\* further runs of the whole script.

RunRows ==
    {l \in LatestRows :
        /\ l.close \in {149, 155}
        /\ l.rsi \in {RsiNaN, Rsi(FOf(29), FOf(71)), Rsi(FOf(71), FOf(29))}
        /\ l.std \in {NaN, Num(0, 1, 1, 1), Num(0, 1, 49, 40000)}}

InitRuns ==
    \E e \in EarlierRows, l \in RunRows :
        /\ pc = "trend"
        /\ ticker_symbol = "AAPL"
        /\ Close = <<e.close, l.close>>
        /\ SMA50 = <<e.sma50, l.sma50>>
        /\ SMA200 = <<e.sma200, l.sma200>>
        /\ RSI = <<e.rsi, l.rsi>>
        /\ BB_High = <<e.high, l.high>>
        /\ BB_Low = <<e.low, l.low>>
        /\ Volatility = <<e.std, l.std>>
        /\ trend = "none" /\ momentum = "none" /\ band = "none"
        /\ volatility = NoText
        /\ out = <<"basic_info", "indicators", "charts">>

\* The first run is met at Key Insights; when it has ended the script runs
\* again from the top, statement by statement, and may stop at the empty
\* ticker, at the empty table or at an exception like any run.
SpecRuns == InitRuns /\ [][Next]_vars

\* ------------------------------------------------------------ properties

Emitted(tag) == \E i \in 1..Len(out) : out[i] = tag

Count(tag) == Cardinality({i \in 1..Len(out) : out[i] = tag})

Defined(x) == ~x.nan

\* the latest rows, read by position
LastClose == Close[Len(Close)]
LastSMA50 == SMA50[Len(SMA50)]
LastSMA200 == SMA200[Len(SMA200)]
LastRSI == RSI[Len(RSI)]
LastHigh == BB_High[Len(BB_High)]
LastLow == BB_Low[Len(BB_Low)]
LastVolatility == Volatility[Len(Volatility)]

\* x > y and x = y for two values without a radical
RatGt(x, y) == x.n * y.d > y.n * x.d
RatEq(x, y) == x.n * y.d = y.n * x.d

NoColumns ==
    /\ SMA50 = <<>> /\ SMA200 = <<>> /\ RSI = <<>>
    /\ BB_High = <<>> /\ BB_Low = <<>> /\ Volatility = <<>>

NoSignals ==
    /\ trend = "none" /\ momentum = "none" /\ band = "none"
    /\ volatility = NoText

\* C1: a classification whose latest indicator value is undefined is
\* Undetermined: the trend when the last SMA50 or SMA200 is undefined, the
\* momentum when the last RSI is, the band state when the last upper or
\* lower band is, and no numeric volatility level is shown when the last
\* Volatility is; never sideways, neutral or within.
C1_UndefinedIsUndetermined ==
    /\ (trend # "none" /\ (IsNaN(LastSMA50) \/ IsNaN(LastSMA200)))
          => trend = "undetermined"
    /\ (momentum # "none" /\ IsNaN(LastRSI)) => momentum = "undetermined"
    /\ (band # "none" /\ (IsNaN(LastHigh) \/ IsNaN(LastLow)))
          => band = "undetermined"
    /\ (volatility.shown /\ IsNaN(LastVolatility)) => volatility.nan

\* C2: with both latest averages defined the trend shown is upward exactly
\* when SMA50 > SMA200, downward exactly when SMA50 < SMA200 and sideways
\* exactly when they are equal, and it is one of the three.
C2_TrendBySMAOrder ==
    (trend # "none" /\ Defined(LastSMA50) /\ Defined(LastSMA200)) =>
        /\ trend \in {"upward", "downward", "sideways"}
        /\ (trend = "upward") <=> RatGt(LastSMA50, LastSMA200)
        /\ (trend = "downward") <=> RatGt(LastSMA200, LastSMA50)
        /\ (trend = "sideways") <=> RatEq(LastSMA50, LastSMA200)

C2_Witness ==
    /\ trend = "sideways"
    /\ Defined(LastSMA50) /\ Defined(LastSMA200)
    /\ RatEq(LastSMA50, LastSMA200)

\* C3: with the latest RSI r defined the momentum shown is overbought
\* exactly when r > 70, oversold exactly when r < 30 and neutral otherwise;
\* 70 and 30 themselves are neutral.
C3_MomentumByRSI ==
    (momentum # "none" /\ Defined(LastRSI)) =>
        LET r == RsiFloat(LastRSI)
        IN  /\ momentum \in {"overbought", "oversold", "neutral"}
            /\ (momentum = "overbought") <=> FLess(FOf(70), r)
            /\ (momentum = "oversold") <=> FLess(r, FOf(30))
            /\ (FEq(r, FOf(70)) \/ FEq(r, FOf(30))) => momentum = "neutral"

C3_Witness ==
    /\ momentum = "neutral"
    /\ Defined(LastRSI)
    /\ FEq(RsiFloat(LastRSI), FOf(70))

\* C4: with the latest close c and both bands u, l defined the band state
\* shown is above exactly when c > u, below when c is not above u and
\* c < l, and within otherwise, c = u and c = l included.
C4_BandByClose ==
    (band # "none" /\ Defined(LastHigh) /\ Defined(LastLow)
        /\ LastHigh.r = 0 /\ LastLow.r = 0) =>
        /\ band \in {"above", "below", "within"}
        /\ (band = "above") <=> RatGt(Whole(LastClose), LastHigh)
        /\ (band = "below") <=>
              /\ ~RatGt(Whole(LastClose), LastHigh)
              /\ RatGt(LastLow, Whole(LastClose))
        /\ (RatEq(Whole(LastClose), LastHigh) \/ RatEq(Whole(LastClose), LastLow))
              => band = "within"

C4_Witness ==
    /\ band = "within"
    /\ Defined(LastHigh) /\ Defined(LastLow)
    /\ LastHigh = Whole(LastClose)
    /\ LastLow # LastHigh

\* C5: with an empty price series the run fails with the no-data error:
\* no indicator column is computed and no signal is produced.
C5_EmptySeriesFails ==
    (ticker_symbol # "" /\ pc \notin {"fetch", "check"} /\ Len(Close) = 0) =>
        /\ NoColumns
        /\ NoSignals
        /\ \A i \in 1..Len(out) : out[i] \in {"no_data", "error"}
        /\ pc = "done" => out = <<"no_data">>

C5_Witness ==
    /\ ticker_symbol # "" /\ pc = "done" /\ Len(Close) = 0
    /\ out = <<"no_data">>

\* exactly the first w - 1 entries of a column of window w are undefined
LeadingUndefined(column, w) ==
    /\ Len(column) = Len(Close)
    /\ Len(Close) >= w =>
          \A i \in 1..Len(column) : IsNaN(column[i]) <=> i < w

\* C6: each of the six columns has one entry per bar, and when the series
\* is at least as long as the column's window w its first w - 1 entries are
\* undefined and every later one is defined.
C6_ColumnsAligned ==
    Emitted("indicators") =>
        /\ LeadingUndefined(SMA50, 50)
        /\ LeadingUndefined(SMA200, 200)
        /\ LeadingUndefined(RSI, 14)
        /\ LeadingUndefined(BB_High, 20)
        /\ LeadingUndefined(BB_Low, 20)
        /\ LeadingUndefined(Volatility, 20)

C6_Witness ==
    /\ Emitted("indicators")
    /\ Len(Close) > 200
    /\ IsNaN(SMA200[199]) /\ Defined(SMA200[200])
    /\ IsNaN(RSI[13]) /\ Defined(RSI[14])

\* no bar up to i closes below the bar before it
NoLossUpTo(i) == \A j \in 2..i : Close[j] >= Close[j - 1]
\* no bar up to i closes above the bar before it
NoGainUpTo(i) == \A j \in 2..i : Close[j] <= Close[j - 1]

\* an RSI value of 100
RsiIs100(x) == FEq(RsiFloat(x), FOf(100))
\* an RSI value of 50
RsiIs50(x) == FEq(RsiFloat(x), FOf(50))

\* C7: where the RSI is defined, it is 100 when the average loss is 0 and
\* the average gain is positive, and 50 when both averages are 0 (the
\* closes never changed).
C7_RsiEdgeCases ==
    Emitted("indicators") =>
        \A i \in 1..Len(RSI) :
            Defined(RSI[i]) =>
                /\ (NoLossUpTo(i) /\ ~NoGainUpTo(i)) => RsiIs100(RSI[i])
                /\ (NoLossUpTo(i) /\ NoGainUpTo(i)) => RsiIs50(RSI[i])

\* C8: the Volatility column is the same standard deviation as the one in
\* the bands: wherever both are defined, BB_High - BB_Low is
\* 2 * k * Volatility with k = 2.
C8_SameDeviation ==
    Emitted("indicators") =>
        \A i \in 1..Len(Volatility) :
            (Defined(BB_High[i]) /\ Defined(BB_Low[i]) /\ Defined(Volatility[i])) =>
                /\ BB_Low[i].n = BB_High[i].n /\ BB_Low[i].d = BB_High[i].d
                /\ BB_Low[i].r = -BB_High[i].r /\ BB_Low[i].q = BB_High[i].q
                /\ BB_High[i].r * Volatility[i].q
                      = 2 * 2 * Volatility[i].r * BB_High[i].q

\* What each message of Key Insights has to be, from its own inputs in the
\* latest row and nothing else.  A comparison with an undefined value is
\* False, so undefined inputs give the last branch.
OwnTrend ==
    IF Defined(LastSMA50) /\ Defined(LastSMA200)
          /\ RatGt(LastSMA50, LastSMA200) THEN "upward"
    ELSE IF Defined(LastSMA50) /\ Defined(LastSMA200)
          /\ RatGt(LastSMA200, LastSMA50) THEN "downward"
    ELSE "sideways"

OwnMomentum ==
    IF Defined(LastRSI) /\ FLess(FOf(70), RsiFloat(LastRSI)) THEN "overbought"
    ELSE IF Defined(LastRSI) /\ FLess(RsiFloat(LastRSI), FOf(30))
    THEN "oversold"
    ELSE "neutral"

\* c > u for an upper band u = n/d + sqrt(r/q), and c < l for a lower band
\* l = n/d - sqrt(-r/q)
AboveUpper(c, u) ==
    c * u.d - u.n > 0
        /\ (c * u.d - u.n) * (c * u.d - u.n) * u.q > u.r * u.d * u.d

BelowLower(c, l) ==
    l.n - c * l.d > 0
        /\ (l.n - c * l.d) * (l.n - c * l.d) * l.q > (-l.r) * l.d * l.d

OwnBand ==
    IF Defined(LastHigh) /\ AboveUpper(LastClose, LastHigh) THEN "above"
    ELSE IF Defined(LastLow) /\ BelowLower(LastClose, LastLow) THEN "below"
    ELSE "within"

\* the text is "nan" for an undefined Volatility, and otherwise a number
\* of hundredths c within half a hundredth of sqrt(r / q)
OwnVolatility ==
    /\ volatility.nan <=> IsNaN(LastVolatility)
    /\ Defined(LastVolatility) =>
          LET c == volatility.cents
              r == LastVolatility.r
              q == LastVolatility.q
          IN  /\ c >= 0
              /\ 40000 * r <= (2 * c + 1) * (2 * c + 1) * q
              /\ c > 0 => (2 * c - 1) * (2 * c - 1) * q <= 40000 * r

\* C9: in every run, each classification shown is the one its own inputs
\* in the latest row give (the trend: the last SMA50 and SMA200; the
\* momentum: the last RSI; the band state: the last close and bands; the
\* volatility level: the last Volatility) of the table of that run,
\* whatever the other columns, the earlier rows, the other classifications
\* and the run before hold.
C9_OwnInputsOnly ==
    /\ trend # "none" =>
          SMA50 # <<>> /\ SMA200 # <<>> /\ trend = OwnTrend
    /\ momentum # "none" => RSI # <<>> /\ momentum = OwnMomentum
    /\ band # "none" =>
          BB_High # <<>> /\ BB_Low # <<>> /\ band = OwnBand
    /\ volatility.shown => Volatility # <<>> /\ OwnVolatility

\* a finished run in which every classification differs from what the
\* earlier row would give
C9_Witness ==
    /\ pc = "done"
    /\ trend = "downward" /\ RatGt(SMA50[1], SMA200[1])
    /\ momentum = "oversold" /\ FLess(FOf(70), RsiFloat(RSI[1]))
    /\ band = "below" /\ AboveUpper(Close[1], BB_High[1])
    /\ volatility.cents = 100 /\ Volatility[1] = Num(0, 1, 4, 1)

IsPrefix(s, t) == Len(s) <= Len(t) /\ \A i \in 1..Len(s) : t[i] = s[i]

\* one step of a run, as C10 allows it
C10_Step ==
    \* a failure comes from inside the try, adds the one error message and
    \* leaves everything shown before it
    /\ pc' = "failed" =>
          /\ pc \in TryPcs
          /\ ticker_symbol # ""
          /\ out' = Append(out, "error")
          /\ UNCHANGED <<Close, SMA50, SMA200, RSI, BB_High, BB_Low, Volatility,
                         trend, momentum, volatility, band>>
    \* the error message is shown exactly when the run has failed
    /\ Emitted("error")' <=> pc' = "failed"
    /\ Count("error")' <= 1
    \* after the failure no step of this run executes
    /\ pc = "failed" => pc' = "input"
    \* within a run the page only grows
    /\ pc' # "input" => IsPrefix(out, out')
    \* an empty ticker: nothing is fetched, computed or classified
    /\ (pc' = "done" /\ ticker_symbol' = "") =>
          (Close' = <<>> /\ NoColumns' /\ NoSignals' /\ out' = <<>>)

\* C10: with a ticker, an exception at any step stops the run there: one
\* error message, no later step, what was shown stays; with an empty ticker
\* nothing is fetched, computed or classified.
C10_ExceptionStopsRun == [][C10_Step]_vars

C10_Witness ==
    /\ pc = "failed"
    /\ trend # "none" /\ momentum = "none"
    /\ out[Len(out)] = "error" /\ Len(out) > 1

====
